---- MODULE Spec2Model ----
(***************************************************************************)
(* Model of the sessionup Manager (src/manager.go): the session lifecycle  *)
(* operations Init, Auth, Revoke, RevokeOther, RevokeAll and FetchAll      *)
(* working against a session store, with the request context that Auth     *)
(* binds a session to and the cookies written to the response.             *)
(*                                                                         *)
(* Every handler is one action.  Each action records what the handler did  *)
(* (arguments, store calls, cookies written, value returned, rejection and  *)
(* forwarding) in the variable last, together with the store it found.     *)
(*                                                                         *)
(* SpecConc runs the handlers of several requests side by side: a handler  *)
(* is then three steps, up to its store call, the store call, and what     *)
(* follows it.                                                             *)
(***************************************************************************)
EXTENDS Integers, Sequences, FiniteSets, TLC

VARIABLES
    store,   \* the sessions the store holds
    ctx,     \* ctx[r]: the context of the request being served on connection r
    now,     \* the clock read by time.Now()
    nextID,  \* the next token genID hands out
    last,    \* record of the operation performed last
    inflight,\* inflight[r]: the operation request r is in the middle of
    serial,  \* the store of the same operations run one after the other
    begun    \* the handlers entered so far in a concurrent run

vars == <<store, ctx, now, nextID, last, inflight, serial, begun>>

\* what the operations run one at a time leave alone
conc == <<inflight, serial, begun>>

-----------------------------------------------------------------------------
(* Bounds of the model. *)

\* number of session IDs genID hands out
MaxID == 2
\* number of times the clock advances
MaxTicks == 1

(* Values. *)

\* the requests served side by side
Requests == {"r1"}
\* the user keys callers pass
UserKeys == {"alice", "bob"}
\* the first clock reading, long after the zero time
Epoch == 100
\* time.Time{}
ZeroTime == 0
\* the ID of the zero Session, the empty string
EmptyID == 0
\* the tokens genID can produce
IDs == 1..MaxID
\* the cookie age deleteCookie subtracts from the clock: 30 days
DeleteAge == 30

defaultName == "sessionup"
\* the names of the cookies requests carry: the session cookie and another one
CookieNames == {defaultName, "lang"}
\* expiry durations a manager may be configured with (ExpiresIn option); 0 is unset
Durations == {0, 7}

Nil == "nil"
ErrNoCookie == "http: named cookie not present"
ErrUnauthorized == "unauthorized"
\* the errors a store call may return
StoreErrs == {"store: timeout", "store: closed"}
Faults == {Nil} \cup StoreErrs

\* the zero value of Session
ZeroSession ==
    [ID |-> EmptyID, UserKey |-> "", CreatedAt |-> ZeroTime,
     ExpiresAt |-> ZeroTime, Current |-> FALSE]

\* a Manager value: the fields the operations read
Managers == [expiresIn : Durations, name : {defaultName}]

\* the cookies a request may carry: none, or one cookie
RequestCookies ==
    {{}} \cup {{c} : c \in [name : CookieNames, value : {EmptyID} \cup IDs]}

\* a context without a session
Background == [ok |-> FALSE, s |-> ZeroSession]

-----------------------------------------------------------------------------
(* time.Time *)

After(t, u) == t > u

-----------------------------------------------------------------------------
(* The store.  Every call takes the error the backend answers with: Nil    *)
(* when the call goes through.                                             *)

StoreCreate(st, s, fault) ==
    IF fault # Nil THEN [st |-> st, err |-> fault]
    ELSE [st |-> st \cup {s}, err |-> Nil]

StoreFetchByID(st, id, fault) ==
    IF fault # Nil THEN [s |-> ZeroSession, ok |-> FALSE, err |-> fault]
    ELSE IF \E s \in st : s.ID = id
         THEN [s |-> CHOOSE s \in st : s.ID = id, ok |-> TRUE, err |-> Nil]
         ELSE [s |-> ZeroSession, ok |-> FALSE, err |-> Nil]

StoreDeleteByID(st, id, fault) ==
    IF fault # Nil THEN [st |-> st, err |-> fault]
    ELSE [st |-> {s \in st : s.ID # id}, err |-> Nil]

StoreDeleteByUserKey(st, key, expID, fault) ==
    IF fault # Nil THEN [st |-> st, err |-> fault]
    ELSE [st |-> {s \in st : s.UserKey # key \/ s.ID \in expID}, err |-> Nil]

\* the sessions of ss in the order of their IDs
RECURSIVE InOrder(_)
InOrder(ss) ==
    IF ss = {} THEN <<>>
    ELSE LET f == CHOOSE s \in ss : \A o \in ss : s.ID <= o.ID
         IN  <<f>> \o InOrder(ss \ {f})

\* a slice: nil, or the sessions it holds
NilSlice == [nil |-> TRUE, ss |-> <<>>]

StoreFetchByUserKey(st, key, fault) ==
    IF fault # Nil THEN [ss |-> NilSlice, err |-> fault]
    ELSE LET found == {s \in st : s.UserKey = key}
         IN  IF found = {} THEN [ss |-> NilSlice, err |-> Nil]
             ELSE [ss |-> [nil |-> FALSE, ss |-> InOrder(found)], err |-> Nil]

-----------------------------------------------------------------------------
(* Context binder *)

newContext(s) == [ok |-> TRUE, s |-> s]

FromContext(c) == [s |-> c.s, ok |-> c.ok]

-----------------------------------------------------------------------------
(* Session factory *)

newSession(m, key, id, t) ==
    [ID |-> id, UserKey |-> key, CreatedAt |-> t,
     ExpiresAt |-> IF m.expiresIn # 0 THEN t + m.expiresIn ELSE ZeroTime,
     Current |-> FALSE]

-----------------------------------------------------------------------------
(* Cookies *)

\* http.Request.Cookie: the named cookie of the request, or ErrNoCookie
RequestCookie(cs, name) ==
    IF \E c \in cs : c.name = name
    THEN [value |-> (CHOOSE c \in cs : c.name = name).value, err |-> Nil]
    ELSE [value |-> EmptyID, err |-> ErrNoCookie]

setCookie(m, exp, tok) == [name |-> m.name, value |-> tok, expires |-> exp]

\* deleteCookie that gives the empty cookie the expiry of a new session
deleteCookie_SessionExpiry(m, t) ==
    setCookie(m, IF m.expiresIn # 0 THEN t + m.expiresIn ELSE ZeroTime, EmptyID)

deleteCookie(m, t) == setCookie(m, t - DeleteAge, EmptyID)

-----------------------------------------------------------------------------
(* What an operation did.  calls: the store calls made, in order; set: the  *)
(* cookies written to the response; rejected: the errors handed to the     *)
(* reject handler; forwarded: the contexts the next handler was called     *)
(* with; ret: the error returned; result: the sessions returned; issued:   *)
(* for Auth, what the Init did that came right before it, if one did; r:   *)
(* the request served.                                                     *)

Did(op, m, key, cs, c, st) ==
    [op |-> op, m |-> m, key |-> key, cs |-> cs, ctx |-> c, before |-> st,
     st |-> st, ret |-> Nil, calls |-> <<>>, set |-> <<>>,
     rejected |-> <<>>, forwarded |-> <<>>, result |-> NilSlice,
     issued |-> <<>>, r |-> ""]

Call(fn, id, key, expID, err) ==
    [fn |-> fn, id |-> id, key |-> key, expID |-> expID, err |-> err]

-----------------------------------------------------------------------------
(* The operations of the Manager.  m: the manager; c: the context of the   *)
(* request; t: the clock; st: the store; fault: the answer of the backend  *)
(* to the store call the operation makes, if it makes one.                 *)

\* Init that only writes the cookie
ManagerInit_NoCreate(m, c, key, id, t, st, fault) ==
    LET s == newSession(m, key, id, t)
        d == Did("Init", m, key, {}, c, st)
    IN  [d EXCEPT !.set = <<setCookie(m, s.ExpiresAt, s.ID)>>]

\* Init that writes the cookie only for the sessions it stores
ManagerInit_CookieWhenStored(m, c, key, id, t, st, fault) ==
    LET s == newSession(m, key, id, t)
        d == Did("Init", m, key, {}, c, st)
    IN  IF After(s.ExpiresAt, ZeroTime)
        THEN LET cr == StoreCreate(st, s, fault)
                 called == [d EXCEPT !.calls = <<Call("Create", s.ID, s.UserKey, {}, cr.err)>>]
             IN  IF cr.err # Nil
                 THEN [called EXCEPT !.ret = cr.err]
                 ELSE [called EXCEPT !.st = cr.st,
                                     !.set = <<setCookie(m, s.ExpiresAt, s.ID)>>]
        ELSE d

\* Init that stores the session whatever its expiry
ManagerInit_AlwaysCreate(m, c, key, id, t, st, fault) ==
    LET s == newSession(m, key, id, t)
        d == Did("Init", m, key, {}, c, st)
        cr == StoreCreate(st, s, fault)
        called == [d EXCEPT !.calls = <<Call("Create", s.ID, s.UserKey, {}, cr.err)>>]
    IN  IF cr.err # Nil
        THEN [called EXCEPT !.ret = cr.err]
        ELSE [called EXCEPT !.st = cr.st,
                            !.set = <<setCookie(m, s.ExpiresAt, s.ID)>>]

\* Init that writes the cookie before it stores the session
ManagerInit_CookieFirst(m, c, key, id, t, st, fault) ==
    LET s == newSession(m, key, id, t)
        d == [Did("Init", m, key, {}, c, st) EXCEPT
                  !.set = <<setCookie(m, s.ExpiresAt, s.ID)>>]
    IN  IF After(s.ExpiresAt, ZeroTime)
        THEN LET cr == StoreCreate(st, s, fault)
                 called == [d EXCEPT !.calls = <<Call("Create", s.ID, s.UserKey, {}, cr.err)>>]
             IN  IF cr.err # Nil
                 THEN [called EXCEPT !.ret = cr.err]
                 ELSE [called EXCEPT !.st = cr.st]
        ELSE d

ManagerInit(m, c, key, id, t, st, fault) ==
    LET s == newSession(m, key, id, t)
        d == Did("Init", m, key, {}, c, st)
    IN  IF After(s.ExpiresAt, ZeroTime)
        THEN LET cr == StoreCreate(st, s, fault)
                 called == [d EXCEPT !.calls = <<Call("Create", s.ID, s.UserKey, {}, cr.err)>>]
             IN  IF cr.err # Nil
                 THEN [called EXCEPT !.ret = cr.err]
                 ELSE [called EXCEPT !.st = cr.st,
                                     !.set = <<setCookie(m, s.ExpiresAt, s.ID)>>]
        ELSE [d EXCEPT !.set = <<setCookie(m, s.ExpiresAt, s.ID)>>]

\* Auth that goes to the store whether or not the request has the cookie
ManagerAuth_NoCookieCheck(m, cs, c, st, fault) ==
    LET ck == RequestCookie(cs, m.name)
        d == Did("Auth", m, "", cs, c, st)
        f == StoreFetchByID(st, ck.value, fault)
        called == [d EXCEPT !.calls = <<Call("FetchByID", ck.value, "", {}, f.err)>>]
    IN  IF f.err # Nil
        THEN [called EXCEPT !.rejected = <<f.err>>]
        ELSE IF ~f.ok
             THEN [called EXCEPT !.rejected = <<ErrUnauthorized>>]
             ELSE [called EXCEPT !.forwarded = <<newContext(f.s)>>]

\* Auth that forwards the request with its own context, the session unbound
ManagerAuth_NoBind(m, cs, c, st, fault) ==
    LET ck == RequestCookie(cs, m.name)
        d == Did("Auth", m, "", cs, c, st)
    IN  IF ck.err # Nil
        THEN [d EXCEPT !.rejected = <<ck.err>>]
        ELSE LET f == StoreFetchByID(st, ck.value, fault)
                 called == [d EXCEPT !.calls = <<Call("FetchByID", ck.value, "", {}, f.err)>>]
             IN  IF f.err # Nil
                 THEN [called EXCEPT !.rejected = <<f.err>>]
                 ELSE IF ~f.ok
                      THEN [called EXCEPT !.rejected = <<ErrUnauthorized>>]
                      ELSE [called EXCEPT !.forwarded = <<c>>]

\* Auth that looks at the found flag before the error of FetchByID
ManagerAuth_FoundFirst(m, cs, c, st, fault) ==
    LET ck == RequestCookie(cs, m.name)
        d == Did("Auth", m, "", cs, c, st)
    IN  IF ck.err # Nil
        THEN [d EXCEPT !.rejected = <<ck.err>>]
        ELSE LET f == StoreFetchByID(st, ck.value, fault)
                 called == [d EXCEPT !.calls = <<Call("FetchByID", ck.value, "", {}, f.err)>>]
             IN  IF ~f.ok
                 THEN [called EXCEPT !.rejected = <<ErrUnauthorized>>]
                 ELSE IF f.err # Nil
                      THEN [called EXCEPT !.rejected = <<f.err>>]
                      ELSE [called EXCEPT !.forwarded = <<newContext(f.s)>>]

ManagerAuth(m, cs, c, st, fault) ==
    LET ck == RequestCookie(cs, m.name)
        d == Did("Auth", m, "", cs, c, st)
    IN  IF ck.err # Nil
        THEN [d EXCEPT !.rejected = <<ck.err>>]
        ELSE LET f == StoreFetchByID(st, ck.value, fault)
                 called == [d EXCEPT !.calls = <<Call("FetchByID", ck.value, "", {}, f.err)>>]
             IN  IF f.err # Nil
                 THEN [called EXCEPT !.rejected = <<f.err>>]
                 ELSE IF ~f.ok
                      THEN [called EXCEPT !.rejected = <<ErrUnauthorized>>]
                      ELSE [called EXCEPT !.forwarded = <<newContext(f.s)>>]

\* Revoke that deletes the sessions of the bound session's user key
ManagerRevoke_ByUserKey(m, c, t, st, fault) ==
    LET b == FromContext(c)
        d == Did("Revoke", m, "", {}, c, st)
    IN  IF ~b.ok
        THEN d
        ELSE LET del == StoreDeleteByUserKey(st, b.s.UserKey, {}, fault)
                 called == [d EXCEPT !.calls = <<Call("DeleteByID", b.s.ID, "", {}, del.err)>>]
             IN  IF del.err # Nil
                 THEN [called EXCEPT !.ret = del.err]
                 ELSE [called EXCEPT !.st = del.st, !.set = <<deleteCookie(m, t)>>]

\* Revoke that does not look at the found flag of FromContext
ManagerRevoke_NoBoundCheck(m, c, t, st, fault) ==
    LET b == FromContext(c)
        d == Did("Revoke", m, "", {}, c, st)
        del == StoreDeleteByID(st, b.s.ID, fault)
        called == [d EXCEPT !.calls = <<Call("DeleteByID", b.s.ID, "", {}, del.err)>>]
    IN  IF del.err # Nil
        THEN [called EXCEPT !.ret = del.err]
        ELSE [called EXCEPT !.st = del.st, !.set = <<deleteCookie(m, t)>>]

\* Revoke that deletes the cookie before it looks at the error of DeleteByID
ManagerRevoke_CookieFirst(m, c, t, st, fault) ==
    LET b == FromContext(c)
        d == Did("Revoke", m, "", {}, c, st)
    IN  IF ~b.ok
        THEN d
        ELSE LET del == StoreDeleteByID(st, b.s.ID, fault)
                 called == [d EXCEPT !.calls = <<Call("DeleteByID", b.s.ID, "", {}, del.err)>>,
                                     !.set = <<deleteCookie(m, t)>>]
             IN  IF del.err # Nil
                 THEN [called EXCEPT !.ret = del.err]
                 ELSE [called EXCEPT !.st = del.st]

ManagerRevoke(m, c, t, st, fault) ==
    LET b == FromContext(c)
        d == Did("Revoke", m, "", {}, c, st)
    IN  IF ~b.ok
        THEN d
        ELSE LET del == StoreDeleteByID(st, b.s.ID, fault)
                 called == [d EXCEPT !.calls = <<Call("DeleteByID", b.s.ID, "", {}, del.err)>>]
             IN  IF del.err # Nil
                 THEN [called EXCEPT !.ret = del.err]
                 ELSE [called EXCEPT !.st = del.st, !.set = <<deleteCookie(m, t)>>]

\* RevokeOther that passes no ID to keep
ManagerRevokeOther_NoExclude(m, c, key, st, fault) ==
    LET d == Did("RevokeOther", m, key, {}, c, st)
        del == StoreDeleteByUserKey(st, key, {}, fault)
    IN  [d EXCEPT !.calls = <<Call("DeleteByUserKey", EmptyID, key, {}, del.err)>>,
                  !.st = del.st, !.ret = del.err]

\* RevokeOther that clears the cookie as Revoke and RevokeAll do
ManagerRevokeOther_ClearsCookie(m, c, key, st, fault) ==
    LET b == FromContext(c)
        d == Did("RevokeOther", m, key, {}, c, st)
        del == StoreDeleteByUserKey(st, key, {b.s.ID}, fault)
        called == [d EXCEPT !.calls = <<Call("DeleteByUserKey", EmptyID, key, {b.s.ID}, del.err)>>,
                            !.st = del.st, !.ret = del.err]
    IN  IF del.err # Nil
        THEN called
        ELSE [called EXCEPT !.set = <<setCookie(m, ZeroTime, EmptyID)>>]

ManagerRevokeOther(m, c, key, st, fault) ==
    LET b == FromContext(c)
        d == Did("RevokeOther", m, key, {}, c, st)
        del == StoreDeleteByUserKey(st, key, {b.s.ID}, fault)
    IN  [d EXCEPT !.calls = <<Call("DeleteByUserKey", EmptyID, key, {b.s.ID}, del.err)>>,
                  !.st = del.st, !.ret = del.err]

\* RevokeAll that clears the cookie only when a session is bound, as Revoke
ManagerRevokeAll_CookieWhenBound(m, c, key, t, st, fault) ==
    LET d == Did("RevokeAll", m, key, {}, c, st)
        del == StoreDeleteByUserKey(st, key, {}, fault)
        called == [d EXCEPT !.calls = <<Call("DeleteByUserKey", EmptyID, key, {}, del.err)>>]
    IN  IF del.err # Nil
        THEN [called EXCEPT !.ret = del.err]
        ELSE IF FromContext(c).ok
             THEN [called EXCEPT !.st = del.st, !.set = <<deleteCookie(m, t)>>]
             ELSE [called EXCEPT !.st = del.st]

\* RevokeAll that keeps the bound session, as RevokeOther
ManagerRevokeAll_KeepsCurrent(m, c, key, t, st, fault) ==
    LET d == Did("RevokeAll", m, key, {}, c, st)
        del == StoreDeleteByUserKey(st, key, {FromContext(c).s.ID}, fault)
        called == [d EXCEPT !.calls = <<Call("DeleteByUserKey", EmptyID, key, {}, del.err)>>]
    IN  IF del.err # Nil
        THEN [called EXCEPT !.ret = del.err]
        ELSE [called EXCEPT !.st = del.st, !.set = <<deleteCookie(m, t)>>]

ManagerRevokeAll(m, c, key, t, st, fault) ==
    LET d == Did("RevokeAll", m, key, {}, c, st)
        del == StoreDeleteByUserKey(st, key, {}, fault)
        called == [d EXCEPT !.calls = <<Call("DeleteByUserKey", EmptyID, key, {}, del.err)>>]
    IN  IF del.err # Nil
        THEN [called EXCEPT !.ret = del.err]
        ELSE [called EXCEPT !.st = del.st, !.set = <<deleteCookie(m, t)>>]

\* a loop that sets Current on the entry it starts with
MarkCurrent_First(ss, id) ==
    IF ss # <<>> THEN [ss EXCEPT ![1].Current = TRUE] ELSE ss

\* the loop of FetchAll: the first session with the ID gets Current
MarkCurrent(ss, id) ==
    IF \E i \in 1..Len(ss) : ss[i].ID = id
    THEN LET i == CHOOSE k \in 1..Len(ss) :
                      /\ ss[k].ID = id
                      /\ \A j \in 1..(k - 1) : ss[j].ID # id
         IN  [ss EXCEPT ![i].Current = TRUE]
    ELSE ss

\* FetchAll that puts the sessions back with the flag it has set
ManagerFetchAll_WritesBack(m, c, key, st, fault) ==
    LET d == Did("FetchAll", m, key, {}, c, st)
        f == StoreFetchByUserKey(st, key, fault)
        called == [d EXCEPT !.calls = <<Call("FetchByUserKey", EmptyID, key, {}, f.err)>>]
        cs == FromContext(c)
    IN  IF f.err # Nil
        THEN [called EXCEPT !.ret = f.err]
        ELSE IF f.ss.nil
             THEN called
             ELSE IF ~cs.ok
                  THEN [called EXCEPT !.result = f.ss]
                  ELSE LET marked == MarkCurrent(f.ss.ss, cs.s.ID)
                       IN  [called EXCEPT
                               !.result = [nil |-> FALSE, ss |-> marked],
                               !.st = {s \in st : s.UserKey # key}
                                        \cup {marked[i] : i \in 1..Len(marked)}]

\* FetchAll that asks the store again when it answered with an error
ManagerFetchAll_Retry(m, c, key, st, fault) ==
    LET d == Did("FetchAll", m, key, {}, c, st)
        f == StoreFetchByUserKey(st, key, fault)
        one == Call("FetchByUserKey", EmptyID, key, {}, f.err)
        cs == FromContext(c)
    IN  IF f.err # Nil
        THEN [d EXCEPT !.calls = <<one, one>>, !.ret = f.err]
        ELSE IF f.ss.nil
             THEN [d EXCEPT !.calls = <<one>>]
             ELSE IF ~cs.ok
                  THEN [d EXCEPT !.calls = <<one>>, !.result = f.ss]
                  ELSE [d EXCEPT !.calls = <<one>>, !.result =
                            [nil |-> FALSE, ss |-> MarkCurrent(f.ss.ss, cs.s.ID)]]

\* FetchAll that returns an empty slice when the store has nothing
ManagerFetchAll_EmptySlice(m, c, key, st, fault) ==
    LET d == Did("FetchAll", m, key, {}, c, st)
        f == StoreFetchByUserKey(st, key, fault)
        called == [d EXCEPT !.calls = <<Call("FetchByUserKey", EmptyID, key, {}, f.err)>>]
        cs == FromContext(c)
    IN  IF f.err # Nil
        THEN [called EXCEPT !.ret = f.err]
        ELSE IF ~cs.ok
             THEN [called EXCEPT !.result = [nil |-> FALSE, ss |-> f.ss.ss]]
             ELSE [called EXCEPT !.result =
                       [nil |-> FALSE, ss |-> MarkCurrent(f.ss.ss, cs.s.ID)]]

ManagerFetchAll(m, c, key, st, fault) ==
    LET d == Did("FetchAll", m, key, {}, c, st)
        f == StoreFetchByUserKey(st, key, fault)
        called == [d EXCEPT !.calls = <<Call("FetchByUserKey", EmptyID, key, {}, f.err)>>]
        cs == FromContext(c)
    IN  IF f.err # Nil
        THEN [called EXCEPT !.ret = f.err]
        ELSE IF f.ss.nil
             THEN called
             ELSE IF ~cs.ok
                  THEN [called EXCEPT !.result = f.ss]
                  ELSE [called EXCEPT !.result =
                            [nil |-> FALSE, ss |-> MarkCurrent(f.ss.ss, cs.s.ID)]]

-----------------------------------------------------------------------------
(* The state machine *)

Idle == Did("none", [expiresIn |-> 0, name |-> defaultName], "", {}, Background, {})

\* the answer of a store call that has not been made
NoReply ==
    [st |-> {}, s |-> ZeroSession, ok |-> FALSE, ss |-> NilSlice, err |-> Nil]

\* a request that is in no operation
Resting ==
    [pc |-> "idle", op |-> "none", m |-> Idle.m, key |-> "", cs |-> {},
     c |-> Background, s |-> ZeroSession, before |-> {}, reply |-> NoReply]

Init ==
    /\ store = {}
    /\ ctx = [r \in Requests |-> Background]
    /\ now = Epoch
    /\ nextID = 1
    /\ last = Idle
    /\ inflight = [r \in Requests |-> Resting]
    /\ serial = {}
    /\ begun = 0

\* what Init did, as the request that follows it sees it
Issued(d) == [m |-> d.m, key |-> d.key, ret |-> d.ret, set |-> d.set]

\* a handler calls m.Init(w, r, key)
DoInit ==
    \E m \in Managers, r \in Requests, key \in UserKeys, fault \in Faults :
        /\ nextID <= MaxID
        /\ last' = [ManagerInit(m, ctx[r], key, nextID, now, store, fault) EXCEPT !.r = r]
        /\ store' = last'.st
        /\ nextID' = nextID + 1
        /\ UNCHANGED <<ctx, now>>
        /\ UNCHANGED conc

\* a request arrives at m.Auth(next); when forwarded, next runs with the
\* derived context
DoAuth ==
    \E m \in Managers, r \in Requests, cs \in RequestCookies, fault \in Faults :
        /\ last' = [ManagerAuth(m, cs, Background, store, fault) EXCEPT
                        !.r = r,
                        !.issued = IF last.op = "Init" THEN <<Issued(last)>> ELSE <<>>]
        /\ ctx' = [ctx EXCEPT ![r] = IF last'.forwarded # <<>>
                                     THEN last'.forwarded[1] ELSE Background]
        /\ store' = last'.st
        /\ UNCHANGED <<now, nextID>>
        /\ UNCHANGED conc

\* the handler of request r calls m.Revoke(ctx, w)
DoRevoke ==
    \E m \in Managers, r \in Requests, fault \in Faults :
        /\ last' = [ManagerRevoke(m, ctx[r], now, store, fault) EXCEPT !.r = r]
        /\ store' = last'.st
        /\ UNCHANGED <<ctx, now, nextID>>
        /\ UNCHANGED conc

\* the handler of request r calls m.RevokeOther(ctx, key)
DoRevokeOther ==
    \E m \in Managers, r \in Requests, key \in UserKeys, fault \in Faults :
        /\ last' = [ManagerRevokeOther(m, ctx[r], key, store, fault) EXCEPT !.r = r]
        /\ store' = last'.st
        /\ UNCHANGED <<ctx, now, nextID>>
        /\ UNCHANGED conc

\* the handler of request r calls m.RevokeAll(ctx, w, key)
DoRevokeAll ==
    \E m \in Managers, r \in Requests, key \in UserKeys, fault \in Faults :
        /\ last' = [ManagerRevokeAll(m, ctx[r], key, now, store, fault) EXCEPT !.r = r]
        /\ store' = last'.st
        /\ UNCHANGED <<ctx, now, nextID>>
        /\ UNCHANGED conc

\* the handler of request r calls m.FetchAll(ctx, key)
DoFetchAll ==
    \E m \in Managers, r \in Requests, key \in UserKeys, fault \in Faults :
        /\ last' = [ManagerFetchAll(m, ctx[r], key, store, fault) EXCEPT !.r = r]
        /\ store' = last'.st
        /\ UNCHANGED <<ctx, now, nextID>>
        /\ UNCHANGED conc

\* request r ends; the next one on r starts outside Auth
Done ==
    \E r \in Requests :
        /\ ctx[r] # Background
        /\ ctx' = [ctx EXCEPT ![r] = Background]
        /\ UNCHANGED <<store, now, nextID, last>>
        /\ UNCHANGED conc

Tick ==
    /\ now < Epoch + MaxTicks
    /\ now' = now + 1
    /\ UNCHANGED <<store, ctx, nextID, last>>
    /\ UNCHANGED conc

Next ==
    \/ DoInit
    \/ DoAuth
    \/ DoRevoke
    \/ DoRevokeOther
    \/ DoRevokeAll
    \/ DoFetchAll
    \/ Done
    \/ Tick

Spec == Init /\ [][Next]_vars

-----------------------------------------------------------------------------
(* Reading the record of an operation *)

\* the request carries a cookie of this name
Carries(cs, name) == \E c \in cs : c.name = name

\* the value of the cookie of this name
ValueOf(cs, name) == (CHOOSE c \in cs : c.name = name).value

\* no store call of the operation was answered with an error
NoStoreError(d) == \A i \in 1..Len(d.calls) : d.calls[i].err = Nil

\* the sessions of st with this ID
WithID(st, id) == {s \in st : s.ID = id}

-----------------------------------------------------------------------------
(* Authentication *)

\* C1: a request without the configured session cookie is rejected (the
\* reject handler runs once), the store is not called and keeps its
\* contents, and the next handler is not called.
C1_MissingCookieRejected ==
    (last.op = "Auth" /\ ~Carries(last.cs, last.m.name)) =>
        /\ Len(last.rejected) = 1
        /\ last.calls = <<>>
        /\ store = last.before
        /\ last.forwarded = <<>>

\* a request whose only cookie has another name and the ID of a stored
\* session as its value was rejected
C1_Witness ==
    /\ last.op = "Auth"
    /\ \E c \in last.cs :
           c.name # last.m.name /\ WithID(store, c.value) # {}
    /\ ~Carries(last.cs, last.m.name)
    /\ last.rejected = <<ErrNoCookie>>

\* C2: when the cookie value is an ID that FetchByID confirms (found, no
\* error), the next handler is called exactly once, with a context that
\* holds exactly the session the store has under that ID, and the reject
\* handler is not called.
C2_ConfirmedForwardedOnce ==
    (/\ last.op = "Auth"
     /\ Carries(last.cs, last.m.name)
     /\ NoStoreError(last)
     /\ WithID(last.before, ValueOf(last.cs, last.m.name)) # {}) =>
        /\ Len(last.forwarded) = 1
        /\ last.forwarded[1].ok
        /\ {last.forwarded[1].s} = WithID(last.before, ValueOf(last.cs, last.m.name))
        /\ last.rejected = <<>>
        /\ ctx[last.r] \in {last.forwarded[1], Background}

\* with two sessions stored, a request carrying the ID of the second was
\* forwarded with that session bound
C2_Witness ==
    /\ last.op = "Auth"
    /\ Cardinality(last.before) = 2
    /\ Carries(last.cs, last.m.name)
    /\ ValueOf(last.cs, last.m.name) = 2
    /\ Len(last.forwarded) = 1
    /\ last.forwarded[1].s.ID = 2
    /\ ctx[last.r] = last.forwarded[1]

\* C3: with the cookie present, FetchByID is called exactly once; when it
\* answers with an error the request is rejected with that error, when it
\* answers not found the request is rejected with "unauthorized"; in both
\* cases the next handler is not called and no session is bound.
C3_FetchFailureRejected ==
    (last.op = "Auth" /\ Carries(last.cs, last.m.name)) =>
        /\ Len(last.calls) = 1
        /\ last.calls[1].fn = "FetchByID"
        /\ last.calls[1].id = ValueOf(last.cs, last.m.name)
        /\ last.calls[1].err # Nil =>
               /\ last.rejected = <<last.calls[1].err>>
               /\ last.forwarded = <<>>
               /\ ~ctx[last.r].ok
        /\ (last.calls[1].err = Nil
             /\ WithID(last.before, ValueOf(last.cs, last.m.name)) = {}) =>
               /\ last.rejected = <<ErrUnauthorized>>
               /\ last.forwarded = <<>>
               /\ ~ctx[last.r].ok

\* a request carrying the ID of a stored session was rejected with the
\* error of the store
C3_Witness ==
    /\ last.op = "Auth"
    /\ Carries(last.cs, last.m.name)
    /\ WithID(last.before, ValueOf(last.cs, last.m.name)) # {}
    /\ Len(last.calls) = 1
    /\ last.calls[1].err \in StoreErrs
    /\ last.rejected = <<last.calls[1].err>>

-----------------------------------------------------------------------------
(* Init *)

\* the cookies of the request that sends back what Init wrote
IssuedCookies(i) ==
    {[name |-> i.set[k].name, value |-> i.set[k].value] : k \in 1..Len(i.set)}

\* the Auth request last served came right after this Init, on the same
\* manager configuration, and carried the cookies Init wrote
AuthAfterInit(i) ==
    /\ last.op = "Auth"
    /\ last.issued = <<i>>
    /\ last.m = i.m
    /\ last.cs = IssuedCookies(i)

\* C4: with a finite expiry configured, an Auth request that follows a
\* successful Init(w, r, key) and carries the cookie Init issued is
\* forwarded to the next handler with a bound session whose ID is the cookie
\* value and whose UserKey is key (the store answering the lookup).
C4_InitThenAuthSucceeds ==
    \A k \in 1..Len(last.issued) :
        (/\ AuthAfterInit(last.issued[k])
         /\ last.issued[k].ret = Nil
         /\ last.issued[k].m.expiresIn # 0
         /\ NoStoreError(last)) =>
            /\ Carries(last.cs, last.m.name)
            /\ Len(last.forwarded) = 1
            /\ last.forwarded[1].ok
            /\ last.forwarded[1].s.ID = ValueOf(last.cs, last.m.name)
            /\ last.forwarded[1].s.UserKey = last.issued[k].key
            /\ last.rejected = <<>>

\* the request that followed a successful Init with a finite expiry was
\* forwarded with the session of the second ID issued, while the store
\* held another session too
C4_Witness ==
    /\ last.op = "Auth"
    /\ Len(last.issued) = 1
    /\ AuthAfterInit(last.issued[1])
    /\ last.issued[1].ret = Nil
    /\ last.issued[1].m.expiresIn # 0
    /\ Len(last.forwarded) = 1
    /\ last.forwarded[1].s.ID = 2
    /\ last.forwarded[1].s.UserKey = last.issued[1].key
    /\ Cardinality(store) = 2

C7_CreateErrorNoCookie ==
    (last.op = "Init" /\ last.calls # <<>> /\ last.calls[1].err # Nil) =>
        /\ last.calls[1].fn = "Create"
        /\ last.ret = last.calls[1].err
        /\ last.set = <<>>
        /\ store = last.before

\* an Init with a finite expiry returned the error of Create
C7_Witness ==
    /\ last.op = "Init"
    /\ last.m.expiresIn # 0
    /\ Len(last.calls) = 1
    /\ last.calls[1].err \in StoreErrs
    /\ last.ret = last.calls[1].err
    /\ last.set = <<>>

-----------------------------------------------------------------------------
(* Revocation *)

\* C8: Revoke with no session bound to the context returns nil, calls the
\* store not at all, leaves the store as it was and writes no cookie.
C8_RevokeUnboundNoOp ==
    (last.op = "Revoke" /\ ~last.ctx.ok) =>
        /\ last.ret = Nil
        /\ last.calls = <<>>
        /\ store = last.before
        /\ last.set = <<>>

\* Revoke ran without a bound session while the store held sessions
C8_Witness ==
    /\ last.op = "Revoke"
    /\ ~last.ctx.ok
    /\ last.ret = Nil
    /\ Cardinality(store) = 2

\* C9: Revoke with a bound session calls DeleteByID with its ID; when the
\* delete succeeds that session is gone from the store, the deletion cookie
\* is written and nil is returned; when DeleteByID answers with an error,
\* Revoke returns that error and writes no cookie.
C9_RevokeDeletesThenClearsCookie ==
    (last.op = "Revoke" /\ last.ctx.ok) =>
        /\ Len(last.calls) = 1
        /\ last.calls[1].fn = "DeleteByID"
        /\ last.calls[1].id = last.ctx.s.ID
        /\ last.calls[1].err # Nil =>
               /\ last.ret = last.calls[1].err
               /\ last.set = <<>>
               /\ store = last.before
        /\ last.calls[1].err = Nil =>
               /\ last.ret = Nil
               /\ store = last.before \ WithID(last.before, last.ctx.s.ID)
               /\ Len(last.set) = 1
               /\ last.set[1].name = last.m.name
               /\ last.set[1].value = EmptyID

\* Revoke with a bound session got an error from DeleteByID: the session is
\* still stored and no cookie was written
C9_Witness ==
    /\ last.op = "Revoke"
    /\ last.ctx.ok
    /\ Len(last.calls) = 1
    /\ last.calls[1].err \in StoreErrs
    /\ last.ret = last.calls[1].err
    /\ last.ctx.s \in store
    /\ last.set = <<>>

\* C10: RevokeOther(ctx, key), when the store call succeeds, leaves in the
\* store exactly the sessions of other user keys and, when a session is
\* bound to ctx, the session with the bound ID; with no session bound all
\* sessions of key are deleted.
C10_RevokeOtherKeepsCurrent ==
    (last.op = "RevokeOther" /\ NoStoreError(last)) =>
        /\ ~last.ctx.ok =>
               store = {s \in last.before : s.UserKey # last.key}
        /\ last.ctx.ok =>
               store = {s \in last.before :
                           s.UserKey # last.key \/ s.ID = last.ctx.s.ID}

\* RevokeOther ran with a bound session of the key while the store held
\* another session of the key: the other one is gone, the bound one stays
C10_Witness ==
    /\ last.op = "RevokeOther"
    /\ last.ctx.ok
    /\ last.ctx.s.UserKey = last.key
    /\ last.ret = Nil
    /\ Cardinality(last.before) = 2
    /\ \A s \in last.before : s.UserKey = last.key
    /\ store = {last.ctx.s}

\* the cookies of a request that carries the session cookie of m with this ID
SessionCookie(m, id) == {[name |-> m.name, value |-> id]}

\* RevokeOther succeeded with a session bound that the store held
RevokedOthersOf(d) ==
    /\ d.op = "RevokeOther"
    /\ d.ret = Nil
    /\ d.ctx.ok
    /\ d.ctx.s \in d.before

C11_AfterRevokeOther ==
    last.op = "RevokeOther" =>
        /\ last.set = <<>>
        /\ RevokedOthersOf(last) => last.ctx.s \in store

C11_NextAuth ==
    (/\ RevokedOthersOf(last)
     /\ last'.op = "Auth"
     /\ last'.cs = SessionCookie(last'.m, last.ctx.s.ID)
     /\ NoStoreError(last')) =>
        /\ last'.forwarded = <<newContext(last.ctx.s)>>
        /\ last'.rejected = <<>>

\* C11: RevokeOther writes no cookie; after a successful RevokeOther with a
\* stored session X bound to the context, X is still in the store, and the
\* Auth request that comes next carrying the ID of X is forwarded with X
\* bound (the store answering the lookup).
C11_RevokeOtherKeepsCookieAndSession ==
    []C11_AfterRevokeOther /\ [][C11_NextAuth]_vars

\* RevokeOther succeeded with a stored session bound: the other session of
\* the key is gone, the bound one is still stored and no cookie was written
C11_Witness ==
    /\ RevokedOthersOf(last)
    /\ last.ctx.s.UserKey = last.key
    /\ Cardinality(last.before) = 2
    /\ store = {last.ctx.s}
    /\ last.set = <<>>

\* C12: RevokeAll(ctx, w, key), when the store call succeeds, deletes every
\* stored session whose UserKey is key, keeping none of them, and then
\* writes the deletion cookie, whether or not a session is bound to ctx.
C12_RevokeAllDeletesKeyAndCookie ==
    (last.op = "RevokeAll" /\ NoStoreError(last)) =>
        /\ Len(last.calls) = 1
        /\ last.calls[1].fn = "DeleteByUserKey"
        /\ last.calls[1].key = last.key
        /\ last.calls[1].expID = {}
        /\ store = {s \in last.before : s.UserKey # last.key}
        /\ last.ret = Nil
        /\ Len(last.set) = 1
        /\ last.set[1].name = last.m.name
        /\ last.set[1].value = EmptyID

\* RevokeAll ran with no session bound: of two stored sessions the one of
\* the key is gone, the other stays, and the deletion cookie was written
C12_Witness ==
    /\ last.op = "RevokeAll"
    /\ ~last.ctx.ok
    /\ Cardinality(last.before) = 2
    /\ Cardinality(store) = 1
    /\ \A s \in store : s.UserKey # last.key
    /\ Len(last.set) = 1
    /\ last.set[1].value = EmptyID

\* RevokeAll succeeded with a session bound
RevokedAllWith(d) ==
    /\ d.op = "RevokeAll"
    /\ d.ret = Nil
    /\ d.ctx.ok

C13_AfterRevokeAll ==
    (RevokedAllWith(last) /\ last.ctx.s.UserKey = last.key) =>
        WithID(store, last.ctx.s.ID) = {}

C13_NextAuth ==
    (/\ RevokedAllWith(last)
     /\ last.ctx.s.UserKey = last.key
     /\ last'.op = "Auth"
     /\ last'.cs = SessionCookie(last'.m, last.ctx.s.ID)
     /\ NoStoreError(last')) =>
        /\ last'.rejected = <<ErrUnauthorized>>
        /\ last'.forwarded = <<>>

-----------------------------------------------------------------------------
(* Enumeration *)

\* the sessions of st with this user key
WithKey(st, key) == {s \in st : s.UserKey = key}

\* C14: FetchAll(ctx, key), when the store holds no session of key and the
\* store call succeeds, returns a nil slice and a nil error.
C14_FetchAllNothingIsNil ==
    (/\ last.op = "FetchAll"
     /\ NoStoreError(last)
     /\ WithKey(last.before, last.key) = {}) =>
        /\ Len(last.calls) = 1
        /\ last.calls[1].fn = "FetchByUserKey"
        /\ last.result = NilSlice
        /\ last.ret = Nil

\* FetchAll with a session bound returned nil for a key without sessions,
\* the store holding a session of the other key
C14_Witness ==
    /\ last.op = "FetchAll"
    /\ last.ctx.ok
    /\ NoStoreError(last)
    /\ Len(last.calls) = 1
    /\ store # {}
    /\ WithKey(store, last.key) = {}
    /\ last.result.nil
    /\ last.ret = Nil

\* the sessions a slice holds, the Current flag aside
Unmarked(ss) == {[ss[i] EXCEPT !.Current = FALSE] : i \in 1..Len(ss)}

\* C15: in the sessions FetchAll(ctx, key) returns, an entry has Current
\* set exactly when a session is bound to ctx and the entry has its ID: one
\* entry when a returned session has the bound ID, none when no session is
\* bound or no returned ID matches.  The entries are the stored sessions of
\* key.
C15_CurrentMarksBoundSession ==
    (last.op = "FetchAll" /\ NoStoreError(last) /\ ~last.result.nil) =>
        LET ss == last.result.ss
            marked == {i \in 1..Len(ss) : ss[i].Current}
            same == {i \in 1..Len(ss) : ss[i].ID = last.ctx.s.ID}
        IN  /\ Unmarked(ss) = WithKey(last.before, last.key)
            /\ Len(ss) = Cardinality(WithKey(last.before, last.key))
            /\ (last.ctx.ok /\ same # {}) =>
                   (marked = same /\ Cardinality(marked) = 1)
            /\ (~last.ctx.ok \/ same = {}) => marked = {}

\* FetchAll returned two sessions; the second has the bound ID and is the
\* only one with Current set
C15_Witness ==
    /\ last.op = "FetchAll"
    /\ last.ctx.ok
    /\ ~last.result.nil
    /\ Len(last.result.ss) = 2
    /\ last.result.ss[2].ID = last.ctx.s.ID
    /\ last.result.ss[2].Current
    /\ ~last.result.ss[1].Current

\* C16: FetchAll leaves the store as it found it, no stored session ever
\* has Current set, and the flag in a result never comes from an earlier
\* call: it is set only on an entry with the ID bound to the context of
\* this call.
C16_FetchAllDoesNotPersistCurrent ==
    /\ \A s \in store : ~s.Current
    /\ last.op = "FetchAll" =>
           /\ store = last.before
           /\ \A i \in 1..Len(last.result.ss) :
                  last.result.ss[i].Current =>
                      (last.ctx.ok /\ last.result.ss[i].ID = last.ctx.s.ID)

\* FetchAll returned the bound session with Current set while the store
\* holds it, and another session of the key, with Current unset
C16_Witness ==
    /\ last.op = "FetchAll"
    /\ last.ctx.ok
    /\ Len(last.result.ss) = 2
    /\ \E i \in 1..2 : last.result.ss[i].Current
    /\ last.ctx.s \in store
    /\ Cardinality(WithKey(store, last.key)) = 2
    /\ \A s \in store : ~s.Current

-----------------------------------------------------------------------------
(* Cookie deletion, store errors *)

\* C17: every cookie Revoke or RevokeAll writes has the configured name,
\* an empty value and an expiry 30 days before the clock reading of the
\* call, so before the current time, whatever expiry duration the manager
\* has (none included).
C17_DeletionCookieExpired ==
    last.op \in {"Revoke", "RevokeAll"} =>
        \A i \in 1..Len(last.set) :
            /\ last.set[i].name = last.m.name
            /\ last.set[i].value = EmptyID
            /\ last.set[i].expires < now
            /\ last.set[i].expires + DeleteAge \in Epoch..now

\* a manager without expiry duration revoked the bound session and wrote
\* the expired empty cookie
C17_Witness ==
    /\ last.op = "Revoke"
    /\ last.m.expiresIn = 0
    /\ last.ctx.ok
    /\ Len(last.set) = 1
    /\ last.set[1].value = EmptyID
    /\ last.set[1].expires < now

\* C18: Init, Revoke, RevokeOther, RevokeAll and FetchAll make at most one
\* store call, and when it answers with an error they return that error.
C18_OneStoreCallErrorReturned ==
    last.op \in {"Init", "Revoke", "RevokeOther", "RevokeAll", "FetchAll"} =>
        /\ Len(last.calls) <= 1
        /\ \A i \in 1..Len(last.calls) :
               last.calls[i].err # Nil => last.ret = last.calls[i].err
        /\ NoStoreError(last) => last.ret = Nil

\* FetchAll returned the error of its one store call
C18_Witness ==
    /\ last.op = "FetchAll"
    /\ Len(last.calls) = 1
    /\ last.calls[1].err \in StoreErrs
    /\ last.ret = last.calls[1].err
    /\ last.result.nil

-----------------------------------------------------------------------------
(* After Revoke *)

\* Revoke succeeded with a session bound
RevokedWith(d) ==
    /\ d.op = "Revoke"
    /\ d.ret = Nil
    /\ d.ctx.ok

C19_AfterRevoke ==
    RevokedWith(last) =>
        /\ WithID(store, last.ctx.s.ID) = {}
        /\ store = last.before \ WithID(last.before, last.ctx.s.ID)

\* an ID that was handed out and is not in the store does not come back, and
\* an Auth request carrying it is rejected with "unauthorized"
C19_GoneStaysGone ==
    \A id \in 1..(nextID - 1) :
        WithID(store, id) = {} =>
            /\ WithID(store', id) = {}
            /\ (/\ last'.op = "Auth"
                 /\ last'.cs = SessionCookie(last'.m, id)
                 /\ NoStoreError(last')) =>
                    /\ last'.rejected = <<ErrUnauthorized>>
                    /\ last'.forwarded = <<>>

C19_SecondRevoke ==
    (/\ RevokedWith(last)
     /\ last'.op = "Revoke"
     /\ last'.ctx = last.ctx
     /\ NoStoreError(last')) =>
        /\ last'.ret = Nil
        /\ store' = store

\* C19: after a successful Revoke with session X bound, X is not in the
\* store and every other session is as it was; from then on the ID of X
\* stays out of the store and every Auth request carrying it is rejected
\* with "unauthorized" (the store answering the lookup); a second Revoke of
\* X returns nil too (the store answering the delete).
C19_RevokedStaysRevoked ==
    /\ []C19_AfterRevoke
    /\ [][C19_GoneStaysGone /\ C19_SecondRevoke]_vars

\* Revoke succeeded with a session bound that an earlier revocation had
\* removed, while the other session of its user key is still stored
C19_Witness ==
    /\ RevokedWith(last)
    /\ Len(last.calls) = 1
    /\ last.ctx.s \notin last.before
    /\ store = last.before
    /\ \E s \in store : s.UserKey = last.ctx.s.UserKey /\ s.ID # last.ctx.s.ID

-----------------------------------------------------------------------------
(* The handlers of several requests side by side.  A handler that makes a  *)
(* store call runs in three steps: Begin, up to the call; CallStore, the   *)
(* call, which the store performs at once; Finish, what follows the call.  *)
(* A handler that returns before any store call is the one step Local.     *)

ConcRequests == {"r1", "r2"}

\* the handlers the concurrent runs enter
MaxBegun == 3

Ops == {"Init", "Auth", "Revoke", "RevokeOther", "RevokeAll", "FetchAll"}

\* the managers, the backend's answers and the requests of the concurrent runs
ConcManagers == {m \in Managers : m.expiresIn # 0}
ConcFaults == {Nil, "store: timeout"}
ConcCookies == {cs \in RequestCookies : \A c \in cs : c.name = defaultName /\ c.value # EmptyID}

\* the keys and the request cookies an operation is called with
KeysOf(op) == IF op \in {"Auth", "Revoke"} THEN {""} ELSE UserKeys
CookiesOf(op) == IF op = "Auth" THEN ConcCookies ELSE {{}}

\* the handler reaches its store call
MakesCall(op, m, cs, c, s) ==
    CASE op = "Init" -> After(s.ExpiresAt, ZeroTime)
      [] op = "Auth" -> RequestCookie(cs, m.name).err = Nil
      [] op = "Revoke" -> FromContext(c).ok
      [] OTHER -> TRUE

\* the handler from its first to its last line, a store call answering fault
Whole(op, m, c, key, cs, s, t, st, fault) ==
    CASE op = "Init" -> ManagerInit(m, c, key, s.ID, s.CreatedAt, st, fault)
      [] op = "Auth" -> ManagerAuth(m, cs, c, st, fault)
      [] op = "Revoke" -> ManagerRevoke(m, c, t, st, fault)
      [] op = "RevokeOther" -> ManagerRevokeOther(m, c, key, st, fault)
      [] op = "RevokeAll" -> ManagerRevokeAll(m, c, key, t, st, fault)
      [] OTHER -> ManagerFetchAll(m, c, key, st, fault)

\* the store call of the operation f, as the handler writes it
CallOf(f, err) ==
    CASE f.op = "Init" -> Call("Create", f.s.ID, f.s.UserKey, {}, err)
      [] f.op = "Auth" ->
            Call("FetchByID", RequestCookie(f.cs, f.m.name).value, "", {}, err)
      [] f.op = "Revoke" -> Call("DeleteByID", FromContext(f.c).s.ID, "", {}, err)
      [] f.op = "RevokeOther" ->
            Call("DeleteByUserKey", EmptyID, f.key, {FromContext(f.c).s.ID}, err)
      [] f.op = "RevokeAll" -> Call("DeleteByUserKey", EmptyID, f.key, {}, err)
      [] OTHER -> Call("FetchByUserKey", EmptyID, f.key, {}, err)

\* what the store does with the call of f and what it answers
StoreCallOf(f, st, fault) ==
    CASE f.op = "Init" ->
            LET x == StoreCreate(st, f.s, fault)
            IN  [NoReply EXCEPT !.st = x.st, !.err = x.err]
      [] f.op = "Auth" ->
            LET x == StoreFetchByID(st, CallOf(f, Nil).id, fault)
            IN  [NoReply EXCEPT !.st = st, !.s = x.s, !.ok = x.ok, !.err = x.err]
      [] f.op = "Revoke" ->
            LET x == StoreDeleteByID(st, CallOf(f, Nil).id, fault)
            IN  [NoReply EXCEPT !.st = x.st, !.err = x.err]
      [] f.op \in {"RevokeOther", "RevokeAll"} ->
            LET x == StoreDeleteByUserKey(st, f.key, CallOf(f, Nil).expID, fault)
            IN  [NoReply EXCEPT !.st = x.st, !.err = x.err]
      [] OTHER ->
            LET x == StoreFetchByUserKey(st, f.key, fault)
            IN  [NoReply EXCEPT !.st = st, !.ss = x.ss, !.err = x.err]

\* Auth after FetchByID, forwarding whatever the store handed back
FinishAuth_NoFoundCheck(f, d) ==
    IF f.reply.err # Nil THEN [d EXCEPT !.rejected = <<f.reply.err>>]
    ELSE [d EXCEPT !.forwarded = <<newContext(f.reply.s)>>]

\* Auth after FetchByID
FinishAuth(f, d) ==
    IF f.reply.err # Nil THEN [d EXCEPT !.rejected = <<f.reply.err>>]
    ELSE IF ~f.reply.ok THEN [d EXCEPT !.rejected = <<ErrUnauthorized>>]
    ELSE [d EXCEPT !.forwarded = <<newContext(f.reply.s)>>]

\* the rest of the handler once the store has answered
FinishOf(f, t) ==
    LET d == [Did(f.op, f.m, f.key, f.cs, f.c, f.before) EXCEPT
                  !.st = f.reply.st, !.calls = <<CallOf(f, f.reply.err)>>]
        failed == f.reply.err # Nil
    IN  CASE f.op = "Init" ->
                IF failed THEN [d EXCEPT !.ret = f.reply.err]
                ELSE [d EXCEPT !.set = <<setCookie(f.m, f.s.ExpiresAt, f.s.ID)>>]
          [] f.op = "Auth" -> FinishAuth(f, d)
          [] f.op \in {"Revoke", "RevokeAll"} ->
                IF failed THEN [d EXCEPT !.ret = f.reply.err]
                ELSE [d EXCEPT !.set = <<deleteCookie(f.m, t)>>]
          [] f.op = "RevokeOther" -> [d EXCEPT !.ret = f.reply.err]
          [] OTHER ->
                IF failed THEN [d EXCEPT !.ret = f.reply.err]
                ELSE IF f.reply.ss.nil THEN d
                ELSE IF ~FromContext(f.c).ok THEN [d EXCEPT !.result = f.reply.ss]
                ELSE [d EXCEPT !.result =
                          [nil |-> FALSE,
                           ss |-> MarkCurrent(f.reply.ss.ss, FromContext(f.c).s.ID)]]

\* the context request r goes on with after the operation d
ContextAfter(r, d) ==
    IF d.op # "Auth" THEN ctx
    ELSE [ctx EXCEPT ![r] = IF d.forwarded # <<>> THEN d.forwarded[1] ELSE Background]

InitConc ==
    /\ store = {}
    /\ ctx = [r \in ConcRequests |-> Background]
    /\ now = Epoch
    /\ nextID = 1
    /\ last = Idle
    /\ inflight = [r \in ConcRequests |-> Resting]
    /\ serial = {}
    /\ begun = 0

\* request r enters a handler and runs it up to its store call
Begin ==
    \E r \in ConcRequests, op \in Ops, m \in ConcManagers :
      \E key \in KeysOf(op), cs \in CookiesOf(op) :
        LET c == IF op = "Auth" THEN Background ELSE ctx[r]
            s == IF op = "Init" THEN newSession(m, key, nextID, now) ELSE ZeroSession
        IN  /\ inflight[r].pc = "idle"
            /\ begun < MaxBegun
            /\ begun' = begun + 1
            /\ op = "Init" => nextID <= MaxID
            /\ MakesCall(op, m, cs, c, s)
            /\ inflight' = [inflight EXCEPT ![r] =
                               [Resting EXCEPT !.pc = "call", !.op = op, !.m = m,
                                               !.key = key, !.cs = cs, !.c = c, !.s = s]]
            /\ nextID' = IF op = "Init" THEN nextID + 1 ELSE nextID
            /\ UNCHANGED <<store, ctx, now, last, serial>>

\* request r runs a handler that returns before any store call
Local ==
    \E r \in ConcRequests, op \in {"Init", "Auth", "Revoke"}, m \in ConcManagers :
      \E key \in KeysOf(op), cs \in CookiesOf(op) :
        LET c == IF op = "Auth" THEN Background ELSE ctx[r]
            s == IF op = "Init" THEN newSession(m, key, nextID, now) ELSE ZeroSession
        IN  /\ inflight[r].pc = "idle"
            /\ begun < MaxBegun
            /\ begun' = begun + 1
            /\ op = "Init" => nextID <= MaxID
            /\ ~MakesCall(op, m, cs, c, s)
            /\ last' = [Whole(op, m, c, key, cs, s, now, store, Nil) EXCEPT !.r = r]
            /\ ctx' = ContextAfter(r, last')
            /\ nextID' = IF op = "Init" THEN nextID + 1 ELSE nextID
            /\ UNCHANGED <<store, now, inflight, serial>>

\* the store performs the call of request r
CallStore ==
    \E r \in ConcRequests, fault \in ConcFaults :
        LET f == inflight[r]
            reply == StoreCallOf(f, store, fault)
        IN  /\ f.pc = "call"
            /\ store' = reply.st
            /\ serial' = Whole(f.op, f.m, f.c, f.key, f.cs, f.s, now, serial, fault).st
            /\ inflight' = [inflight EXCEPT ![r] =
                               [f EXCEPT !.pc = "reply", !.before = store, !.reply = reply]]
            /\ UNCHANGED <<ctx, now, nextID, last, begun>>

\* request r runs the rest of its handler
Finish ==
    \E r \in ConcRequests :
        /\ inflight[r].pc = "reply"
        /\ last' = [FinishOf(inflight[r], now) EXCEPT !.r = r]
        /\ ctx' = ContextAfter(r, last')
        /\ inflight' = [inflight EXCEPT ![r] = Resting]
        /\ UNCHANGED <<store, now, nextID, serial, begun>>

NextConc ==
    \/ Begin
    \/ Local
    \/ CallStore
    \/ Finish

SpecConc == InitConc /\ [][NextConc]_vars

-----------------------------------------------------------------------------
(* Concurrency *)

\* the last operation was an Auth whose outcome is the one the store's
\* contents at its FetchByID call decide
AuthAgreesWithFetch ==
    LET tok == RequestCookie(last.cs, last.m.name)
    IN  /\ Len(last.calls) <= 1
        /\ Len(last.forwarded) + Len(last.rejected) = 1
        /\ last.calls = <<>> <=> tok.err # Nil
        /\ last.calls = <<>> => last.rejected = <<tok.err>>
        /\ last.calls # <<>> =>
              /\ last.calls[1].fn = "FetchByID"
              /\ last.calls[1].id = tok.value
              /\ IF last.calls[1].err # Nil
                    THEN last.rejected = <<last.calls[1].err>>
                 ELSE IF WithID(last.before, tok.value) = {}
                    THEN last.rejected = <<ErrUnauthorized>>
                 ELSE /\ last.forwarded # <<>>
                      /\ last.forwarded[1].ok
                      /\ last.forwarded[1].s \in WithID(last.before, tok.value)

\* C20: the handlers of concurrent requests interleave at their store calls,
\* each store call being atomic.  Whatever the interleaving, the store holds
\* what the same handlers leave when they run one after the other, in the
\* order of their store calls; and every Auth is forwarded or rejected as the
\* contents of the store at the instant of its one FetchByID call decide:
\* forwarded with the session found there, rejected as unauthorized when none
\* was there, rejected with the store's error when the call failed.
C20_InterleavingsSerialise ==
    /\ store = serial
    /\ last.op = "Auth" => AuthAgreesWithFetch

\* an Auth has been forwarded with the session its FetchByID found, which
\* another request deleted before the Auth went on
C20_Witness ==
    /\ last.op = "Auth"
    /\ last.forwarded # <<>>
    /\ last.forwarded[1].s \in last.before
    /\ last.forwarded[1].s \notin store
    /\ store = serial

====
